---- MODULE Spec2Model ----
(***************************************************************************)
(* Model of the isar-turtlebot robot adapter:                              *)
(*   src/src/isar_turtlebot/robotinterface.py   (class Robot)              *)
(*   src/src/isar_turtlebot/ros_bridge/topic.py (classes Topic, ImageTopic)*)
(*                                                                         *)
(* Actors: host threads calling Robot.schedule_task / mission_status /     *)
(* get_inspection_references / download_inspection_result, the transport   *)
(* thread running Topic.on_message and ImageTopic.on_image, and the clock  *)
(* read by time.time() and advanced by time.sleep().                       *)
(*                                                                         *)
(* Time is counted in poll intervals: one time.sleep(0.1) lasts at least   *)
(* one tick and at most MaxSleep ticks (a sleep may overrun).              *)
(***************************************************************************)
EXTENDS Integers, Sequences, FiniteSets, TLC

\* ------------------------------------------------------------------ bounds
\* timeout of _wait_for_updated_task, in poll intervals (a parameter of the
\* function; its default in the source is 20 seconds)
TNav == 1
\* config "mission"/"inspection_task_timeout", in poll intervals
TInsp == 2
\* longest duration of one time.sleep(0.1), in poll intervals
MaxSleep == 2
\* number of schedule_task calls a host thread makes
MaxCalls == 2
\* number of schedule_task calls each of two concurrent host threads makes
ConcCalls == 1
\* longest <hex> part and longest <digits> part of a raw goal id
\* "move_base-<hex>.<digits>"
MaxHexLen == 3
MaxDigitsLen == 2

\* ------------------------------------------------------------ optional values
\* Python's Optional[X]: None is the empty tuple, a value x is <<x>>.
None == << >>
Some(x) == << x >>

\* ------------------------------------------------------------------- strings
\* A Python str is the tuple of its characters.
MoveBasePrefix == << "m", "o", "v", "e", "_", "b", "a", "s", "e", "-" >>

IsPrefixAt(p, s, i) ==
    /\ i + Len(p) - 1 <= Len(s)
    /\ \A k \in 1..Len(p) : s[i + k - 1] = p[k]

\* str.replace(p, ""): every non-overlapping occurrence, left to right
RECURSIVE RemoveAll(_, _)
RemoveAll(p, s) ==
    IF Len(s) = 0 THEN << >>
    ELSE IF IsPrefixAt(p, s, 1)
         THEN RemoveAll(p, SubSeq(s, Len(p) + 1, Len(s)))
         ELSE << Head(s) >> \o RemoveAll(p, Tail(s))

\* str.split(".")[0]: the part before the first "."
RECURSIVE BeforeFirstDot(_)
BeforeFirstDot(s) ==
    IF Len(s) = 0 \/ Head(s) = "." THEN << >>
    ELSE << Head(s) >> \o BeforeFirstDot(Tail(s))

IsNotDash(c) == c # "-"

\* a normalization without the split: the stamp after the "." is kept
NormalizeWithoutSplit(raw) ==
    SelectSeq(RemoveAll(MoveBasePrefix, raw), IsNotDash)

\* run_id.replace("move_base-", "").split(".")[0].replace("-", "")
NormalizeRunId(raw) ==
    SelectSeq(BeforeFirstDot(RemoveAll(MoveBasePrefix, raw)), IsNotDash)

\* raw goal ids the navigation stack reports: "move_base-a-1.5",
\* "move_base-a-1.7" (same goal, later stamp) and "move_base-b.2"
RawA5 == MoveBasePrefix \o << "a", "-", "1", ".", "5" >>
RawA7 == MoveBasePrefix \o << "a", "-", "1", ".", "7" >>
RawB2 == MoveBasePrefix \o << "b", ".", "2" >>
RawIds == { RawA5, RawA7, RawB2 }

\* ------------------------------------------------- navigation status messages
\* actionlib GoalStatus codes carried in status_list[0]["status"]
StatusCodes == { 1, 3, 4 }

\* TurtlebotStatus.map_to_turtlebot_status
MapToTurtlebotStatus(code) ==
    CASE code = 1 -> "Active"
      [] code = 3 -> "Succeeded"
      [] OTHER    -> "Failure"

\* TurtlebotStatus.get_mission_status: the host-visible status of a
\* TurtlebotStatus; of an unset (None) inspection status, "Unexpected"
GetMissionStatus(status) ==
    IF status = None THEN "Unexpected" ELSE status[1]

\* The cached value of the navigation-status topic:
\*   absent  : None, no message received yet
\*   nolist  : a dict without "status_list"
\*   empty   : "status_list" is []
\*   nogoal  : entry 0 has "status" but no "goal_id"
\*   ok      : entry 0 has "status" and "goal_id"."id"
AbsentMsg == [ kind |-> "absent", id |-> << >>, status |-> 0 ]
MalformedMessages ==
    { [ kind |-> "nolist", id |-> << >>, status |-> 0 ],
      [ kind |-> "empty", id |-> << >>, status |-> 0 ],
      [ kind |-> "nogoal", id |-> << >>, status |-> 1 ] }
OkMessages(ids, codes) == { [ kind |-> "ok", id |-> r, status |-> c ] : r \in ids, c \in codes }

\* the messages the status topic delivers while tasks run: a malformed one
\* (empty status_list), the earlier goal a, succeeded, and the goal b, active
\* or succeeded
Messages ==
    { m \in MalformedMessages : m.kind = "empty" }
    \cup OkMessages({ RawA5 }, { 3 }) \cup OkMessages({ RawB2 }, { 1, 3 })

\* the exception status_msg["status_list"][0]["goal_id"]["id"] raises
RunIdLookupError(msg) ==
    CASE msg.kind = "absent" -> "TypeError"
      [] msg.kind = "nolist" -> "KeyError"
      [] msg.kind = "empty"  -> "IndexError"
      [] msg.kind = "nogoal" -> "KeyError"
      [] OTHER               -> "none"

\* Robot._get_run_id: [ exc, val ]; KeyError and IndexError are caught and
\* give None, any other exception propagates
GetRunIdOf(msg) ==
    LET e == RunIdLookupError(msg) IN
    IF e = "none" THEN [ exc |-> "none", val |-> Some(NormalizeRunId(msg.id)) ]
    ELSE IF e \in { "KeyError", "IndexError" } THEN [ exc |-> "none", val |-> None ]
    ELSE [ exc |-> e, val |-> None ]

\* Robot._navigation_status: [ exc, val ]; nothing is caught
NavigationStatusOf(msg) ==
    CASE msg.kind = "absent" -> [ exc |-> "TypeError", val |-> None ]
      [] msg.kind = "nolist" -> [ exc |-> "KeyError", val |-> None ]
      [] msg.kind = "empty"  -> [ exc |-> "IndexError", val |-> None ]
      [] OTHER -> [ exc |-> "none", val |-> Some(MapToTurtlebotStatus(msg.status)) ]

\* -------------------------------------------------------------------- state
Threads == { 1, 2 }

Tasks == { "DriveToPose", "TakeImage", "TakeThermalImage", "Other" }
\* isinstance(task, (TakeImage, TakeThermalImage))
IsInspectionTask(task) == task \in { "TakeImage", "TakeThermalImage" }
InspectionTasks == { task \in Tasks : IsInspectionTask(task) }

VARIABLES
    value,            \* Topic.value of the navigation-status topic
    now,              \* time.time()
    current_task,     \* Robot.current_task: None | <<"navigation">> | <<"inspection">>
    inspection_status,\* Robot.inspection_status: None | <<TurtlebotStatus>>
    should_capture_image, \* ImageTopic.should_capture_image
    current_filename, \* ImageTopic.current_filename: None | <<path>>
    filenames,        \* ImageTopic.filenames: the set of <<run id, filename>> items
    files,            \* the storage folder: path -> None | <<bytes>>
    taken,            \* number of take_image calls so far (names the next uuid4 path)
    cb,               \* the on_image callback in progress on the transport thread
    th,               \* per host thread: the schedule_task call in progress
    calls,            \* per host thread: schedule_task calls made so far
    status_reply,     \* what mission_status returned, until the next step of anyone
    hist              \* per host thread: history of the call, for the properties

robot == << current_task, inspection_status >>
image == << should_capture_image, current_filename, filenames, files, taken, cb >>
vars == << value, now, current_task, inspection_status,
           should_capture_image, current_filename, filenames, files, taken, cb,
           th, calls, status_reply, hist >>

\* storage paths: take_image draws a fresh uuid4 name each time
Paths == 1..(MaxCalls * Cardinality(Threads))

IdleThread ==
    [ pc |-> "idle", task |-> "Other", previous_run_id |-> None,
      current_run_id |-> None, start_time |-> 0, run_id |-> None,
      outcome |-> "none", phase |-> "none", reference |-> None,
      result |-> [ exc |-> "none", data |-> None ] ]

IdleCallback == [ pc |-> "idle", bytes |-> << >>, file |-> None ]

NoReply == [ exc |-> "none", status |-> None ]

\* history of one call: whether the topic's run id differed from
\* previous_run_id at some moment of the dispatch wait before its deadline,
\* and when the navigation-completion wait began
NoHistory ==
    [ changed |-> FALSE,        \* the run id differed from previous_run_id before the dispatch deadline
      navWaitStart |-> 0,       \* when the navigation-completion wait began
      captureStart |-> 0,       \* when take_image was called
      firstPayload |-> None,    \* bytes of the first payload delivered in the capture phase
      regArmed |-> FALSE,       \* should_capture_image when register_run_id was called
      regBefore |-> { },        \* filenames when register_run_id was called
      events |-> << >> ]        \* what the inspection run has done so far, in order

Init ==
    /\ value = AbsentMsg
    /\ now = 0
    /\ current_task = None
    /\ inspection_status = None
    /\ should_capture_image = FALSE
    /\ current_filename = None
    /\ filenames = { }
    /\ files = [ p \in Paths |-> None ]
    /\ taken = 0
    /\ cb = IdleCallback
    /\ th = [ t \in Threads |-> IdleThread ]
    /\ calls = [ t \in Threads |-> 0 ]
    /\ status_reply = NoReply
    /\ hist = [ t \in Threads |-> NoHistory ]

\* ---------------------------------------------------------------- the clock
\* a loop that gives up one poll early: times out when the deadline is reached
TimedOutAtDeadline(execution_time, timeout) == execution_time >= timeout

\* execution_time > timeout
TimedOut(execution_time, timeout) == execution_time > timeout

\* The clock readings are capped for the model to be finite: a call lasts at
\* most TNav + TInsp + MaxSleep ticks (a dispatch that returns, then an
\* inspection that ends at the first sleep past its deadline), calls that
\* overlap share one epoch, and at most ConcCalls calls of each thread do.
MaxClock == (TNav + TInsp + MaxSleep) * ConcCalls * Cardinality(Threads)

\* ------------------------------------------------------------ the transport
InDispatchWait(t) == th[t].pc = "waitSleep"

\* the topic's run id differs from the one thread t read before publishing,
\* at a moment before the deadline of t's dispatch wait
ChangedBeforeDeadline(t, m) ==
    /\ InDispatchWait(t)
    /\ now - th[t].start_time < TNav
    /\ GetRunIdOf(m).exc = "none"
    /\ GetRunIdOf(m).val # th[t].previous_run_id

\* Topic.on_message
OnMessage(m) ==
    /\ value' = m
    /\ hist' = [ t \in Threads |->
                   [ hist[t] EXCEPT !.changed = @ \/ ChangedBeforeDeadline(t, m) ] ]
    /\ UNCHANGED << now, robot, image, th, calls >>

\* ---------------------------------------------------------- schedule_task
\* the call of thread t ends: it returns (True, run_id, None) or raises
Ended(t, outcome) == [ th EXCEPT ![t].pc = "ended", ![t].outcome = outcome ]

\* thread t is inside schedule_task
InCall(t) == th[t].pc \notin { "idle", "ended", "referenced", "downloaded" }

\* Robot.schedule_task -> Robot._publish_task, up to the first statement of
\* the branch taken.  The two inspection variants take the same branch and
\* nothing in it reads the variant: the call records "Inspection", and the
\* variant is read where the host passes the task again
\* (get_inspection_references).
ScheduleTask(t, task) ==
    /\ th[t].pc = "idle"
    /\ calls[t] < MaxCalls
    /\ calls' = [ calls EXCEPT ![t] = @ + 1 ]
    /\ hist' = [ hist EXCEPT ![t] = NoHistory ]
    /\ IF task = "DriveToPose" THEN
           /\ current_task' = Some("navigation")
           /\ th' = [ th EXCEPT ![t] = [ IdleThread EXCEPT !.pc = "readPrev", !.task = task ] ]
       ELSE IF IsInspectionTask(task) THEN
           /\ current_task' = Some("inspection")
           /\ th' = [ th EXCEPT ![t] = [ IdleThread EXCEPT !.pc = "setActive",
                                                            !.task = "Inspection" ] ]
       ELSE
           /\ current_task' = current_task
           /\ th' = [ th EXCEPT ![t] = [ IdleThread EXCEPT !.pc = "ended", !.task = task,
                                                            !.outcome = "NotImplementedError" ] ]
    /\ UNCHANGED << value, now, inspection_status, image >>

\* Robot._publish_inspection_task, first statement
SetActive(t) ==
    /\ th[t].pc = "setActive"
    /\ inspection_status' = Some("Active")
    /\ th' = [ th EXCEPT ![t].pc = "readPrev" ]
    /\ UNCHANGED << value, now, current_task, image, calls, hist >>

\* previous_run_id = self._get_run_id()
ReadPrevious(t) ==
    /\ th[t].pc = "readPrev"
    /\ LET r == GetRunIdOf(value) IN
       th' = IF r.exc # "none" THEN Ended(t, r.exc)
             ELSE [ th EXCEPT ![t].pc = "publish", ![t].previous_run_id = r.val ]
    /\ UNCHANGED << value, now, robot, image, calls, hist >>

\* Robot._publish_navigation_task
PublishNavigationTask(t) ==
    /\ th[t].pc = "publish"
    /\ th' = [ th EXCEPT ![t].pc = "waitStart" ]
    /\ UNCHANGED << value, now, robot, image, calls, hist >>

\* while current_run_id == previous_run_id
RunIdUnchanged(current_run_id, previous_run_id) == current_run_id = previous_run_id

\* the state of thread t's call after _wait_for_updated_task has read
\* current_run_id = r: loop on, or return it (to schedule_task for a
\* navigation task, to _do_inspection_task for an inspection task)
AfterPoll(t, r) ==
    IF r.exc # "none" THEN Ended(t, r.exc)
    ELSE IF RunIdUnchanged(r.val, th[t].previous_run_id)
         THEN [ th EXCEPT ![t].pc = "waitSleep", ![t].current_run_id = r.val ]
    ELSE IF th[t].task = "Inspection"
         THEN [ th EXCEPT ![t].pc = "inspStart", ![t].current_run_id = r.val,
                           ![t].run_id = r.val ]
    ELSE [ th EXCEPT ![t].pc = "ended", ![t].current_run_id = r.val,
                      ![t].run_id = r.val, ![t].outcome = "returned" ]

\* Robot._wait_for_updated_task up to the first loop test
WaitStart(t) ==
    /\ th[t].pc = "waitStart"
    /\ th' = [ AfterPoll(t, GetRunIdOf(value)) EXCEPT ![t].start_time = now ]
    /\ hist' = [ hist EXCEPT ![t].changed =
                   /\ 0 < TNav
                   /\ GetRunIdOf(value).exc = "none"
                   /\ GetRunIdOf(value).val # th[t].previous_run_id ]
    /\ UNCHANGED << value, now, robot, image, calls >>

\* a loop of _wait_for_updated_task that measures each turn on its own:
\* execution_time is the time of the last sleep
WaitSleepMeasuringOneTurn(t, d) ==
    /\ th[t].pc = "waitSleep"
    /\ now + d <= MaxClock
    /\ now' = now + d
    /\ th' = IF TimedOut(d, TNav)
             THEN Ended(t, "DispatchTimeout")
             ELSE AfterPoll(t, GetRunIdOf(value))
    /\ UNCHANGED << value, robot, image, calls, hist >>

\* one turn of the loop of _wait_for_updated_task: sleep, measure, raise
\* TimeoutError or read the run id again
WaitSleep(t, d) ==
    /\ th[t].pc = "waitSleep"
    /\ now + d <= MaxClock
    /\ now' = now + d
    /\ th' = IF TimedOut(now' - th[t].start_time, TNav)
             THEN Ended(t, "DispatchTimeout")
             ELSE AfterPoll(t, GetRunIdOf(value))
    /\ UNCHANGED << value, robot, image, calls, hist >>

\* ------------------------------------------------------ _do_inspection_task
\* start_time: float = time.time(); the locals of _publish_inspection_task
\* and _wait_for_updated_task are gone
InspectionStart(t) ==
    /\ th[t].pc = "inspStart"
    /\ th' = [ th EXCEPT ![t].pc = "navPoll", ![t].start_time = now,
                         ![t].previous_run_id = None, ![t].current_run_id = None ]
    /\ hist' = [ hist EXCEPT ![t].navWaitStart = now, ![t].changed = FALSE,
                             ![t].events = Append(@, "dispatched") ]
    /\ UNCHANGED << value, now, robot, image, calls >>

\* the navigation status read is Succeeded: noted in the history
ObservedSucceeded(t, r) ==
    IF r.exc = "none" /\ r.val = Some("Succeeded")
    THEN [ hist EXCEPT ![t].events = Append(@, "navSucceeded") ]
    ELSE hist

\* a navigation-completion wait that tests the status once (an if in the
\* place of the while) and goes on to the capture whatever it read
NavigationPollOnce(t) ==
    /\ th[t].pc = "navPoll"
    /\ LET r == NavigationStatusOf(value) IN
       /\ th' = IF r.exc # "none" THEN Ended(t, r.exc)
                ELSE [ th EXCEPT ![t].pc = "takeImage" ]
       /\ hist' = ObservedSucceeded(t, r)
    /\ UNCHANGED << value, now, robot, image, calls >>

\* while self._navigation_status() is not TurtlebotStatus.Succeeded
NavigationPoll(t) ==
    /\ th[t].pc = "navPoll"
    /\ LET r == NavigationStatusOf(value) IN
       /\ th' = IF r.exc # "none" THEN Ended(t, r.exc)
                ELSE IF r.val = Some("Succeeded") THEN [ th EXCEPT ![t].pc = "takeImage" ]
                ELSE [ th EXCEPT ![t].pc = "navSleep" ]
       /\ hist' = ObservedSucceeded(t, r)
    /\ UNCHANGED << value, now, robot, image, calls >>

\* one turn of a wait loop of _do_inspection_task: sleep, measure, and on
\* expiry set inspection_status = Failure and raise TimeoutError
InspectionSleep(t, d, from, phase, back) ==
    /\ th[t].pc = from
    /\ now + d <= MaxClock
    /\ now' = now + d
    /\ IF TimedOut(now' - th[t].start_time, TInsp)
       THEN /\ inspection_status' = Some("Failure")
            /\ th' = [ th EXCEPT ![t].pc = "caught", ![t].phase = phase ]
       ELSE /\ inspection_status' = inspection_status
            /\ th' = [ th EXCEPT ![t].pc = back ]
    /\ UNCHANGED << value, current_task, image, calls, hist >>

NavigationSleep(t, d) == InspectionSleep(t, d, "navSleep", "navigation", "navPoll")

\* except TimeoutError in _publish_task: log, clear current_task, return run_id
TimeoutCaught(t) ==
    /\ th[t].pc = "caught"
    /\ current_task' = None
    /\ th' = [ Ended(t, "InspectionTimeout") EXCEPT ![t].start_time = 0 ]
    /\ hist' = [ hist EXCEPT ![t].navWaitStart = 0, ![t].captureStart = 0 ]
    /\ UNCHANGED << value, now, inspection_status, image, calls >>

\* ImageTopic.take_image, first statement: should_capture_image = True
TakeImageArm(t) ==
    /\ th[t].pc = "takeImage"
    /\ should_capture_image' = TRUE
    /\ th' = [ th EXCEPT ![t].pc = "takeImageFile" ]
    /\ hist' = [ hist EXCEPT ![t].captureStart = now,
                             ![t].events = Append(@, "armed") ]
    /\ UNCHANGED << value, now, robot, current_filename, filenames,
                    files, taken, cb, calls >>

\* a capture-completion wait with a budget of its own: the clock is started
\* again when the image is requested
CaptureClockRestarted(t) == now

\* the start of the clock the capture-completion wait measures against: the
\* start_time of the navigation-completion wait, not assigned again
CaptureClockStart(t) == th[t].start_time

\* ImageTopic.take_image, the rest: current_filename = a fresh path
TakeImageFile(t) ==
    /\ th[t].pc = "takeImageFile"
    /\ taken < Cardinality(Paths)
    /\ taken' = taken + 1
    /\ current_filename' = Some(taken + 1)
    /\ th' = [ th EXCEPT ![t].pc = "capPoll", ![t].start_time = CaptureClockStart(t) ]
    /\ hist' = [ hist EXCEPT ![t].events = Append(@, "slot") ]
    /\ UNCHANGED << value, now, robot, should_capture_image, filenames,
                    files, cb, calls >>

\* ImageTopic.stored_image: self.current_filename.is_file()
StoredImage == files[current_filename[1]] # None

\* while not self.bridge.visual_inspection.stored_image()
CapturePoll(t) ==
    /\ th[t].pc = "capPoll"
    /\ th' = [ th EXCEPT ![t].pc = IF StoredImage THEN "succeed" ELSE "capSleep" ]
    /\ hist' = IF StoredImage THEN [ hist EXCEPT ![t].events = Append(@, "stored") ]
               ELSE hist
    /\ UNCHANGED << value, now, robot, image, calls >>

CaptureSleep(t, d) == InspectionSleep(t, d, "capSleep", "capture", "capPoll")

\* self.inspection_status = TurtlebotStatus.Succeeded; start_time is not
\* read again
Succeed(t) ==
    /\ th[t].pc = "succeed"
    /\ inspection_status' = Some("Succeeded")
    /\ th' = [ th EXCEPT ![t].pc = "clearTask", ![t].start_time = 0 ]
    /\ hist' = [ hist EXCEPT ![t].navWaitStart = 0, ![t].captureStart = 0,
                             ![t].events = Append(@, "succeeded") ]
    /\ UNCHANGED << value, now, current_task, image, calls >>

\* self.current_task = None, and return run_id
ClearTask(t) ==
    /\ th[t].pc = "clearTask"
    /\ current_task' = None
    /\ th' = Ended(t, "returned")
    /\ hist' = [ hist EXCEPT ![t].events = Append(@, "cleared") ]
    /\ UNCHANGED << value, now, inspection_status, image, calls >>

\* ------------------------------------------------------------ ImageTopic
\* the base64 alphabet: the value of a character is its index minus one
Base64Alphabet ==
    << "A", "B", "C", "D", "E", "F", "G", "H", "I", "J", "K", "L", "M", "N", "O", "P",
       "Q", "R", "S", "T", "U", "V", "W", "X", "Y", "Z", "a", "b", "c", "d", "e", "f",
       "g", "h", "i", "j", "k", "l", "m", "n", "o", "p", "q", "r", "s", "t", "u", "v",
       "w", "x", "y", "z", "0", "1", "2", "3", "4", "5", "6", "7", "8", "9", "+", "/" >>

Base64Value(c) == (CHOOSE i \in 1..Len(Base64Alphabet) : Base64Alphabet[i] = c) - 1

\* base64.b64decode of an unpadded text: each 4 characters give 3 bytes
RECURSIVE Base64Decode(_)
Base64Decode(s) ==
    IF Len(s) < 4 THEN << >>
    ELSE LET a == Base64Value(s[1])
             b == Base64Value(s[2])
             c == Base64Value(s[3])
             d == Base64Value(s[4])
         IN << a * 4 + b \div 16, (b % 16) * 16 + c \div 4, (c % 4) * 64 + d >>
            \o Base64Decode(SubSeq(s, 5, Len(s)))

\* the message["data"] texts the camera topic delivers: "AQID" (bytes 1 2 3)
\* and "/wAB" (bytes 255 0 1)
Payloads == { << "A", "Q", "I", "D" >>, << "/", "w", "A", "B" >> }

\* thread t is in the capture phase of an inspection: it has set
\* should_capture_image and has not finished the capture-completion wait
InCapture(t) == th[t].pc \in { "takeImageFile", "capPoll", "capSleep" }

\* an on_image that does not test should_capture_image: every payload is
\* stored
OnImageUnconditional(p) ==
    /\ cb.pc = "idle"
    /\ cb' = [ pc |-> "open", bytes |-> Base64Decode(p), file |-> None ]
    /\ hist' = [ t \in Threads |->
                   IF InCapture(t) /\ hist[t].firstPayload = None
                   THEN [ hist[t] EXCEPT !.firstPayload = Some(Base64Decode(p)) ]
                   ELSE hist[t] ]
    /\ UNCHANGED << value, now, robot, should_capture_image,
                    current_filename, filenames, files, taken, th, calls >>

\* ImageTopic.on_image up to the test of should_capture_image
OnImage(p) ==
    /\ cb.pc = "idle"
    /\ cb' = IF should_capture_image
             THEN [ pc |-> "open", bytes |-> Base64Decode(p), file |-> None ]
             ELSE cb
    /\ hist' = [ t \in Threads |->
                   IF InCapture(t) /\ hist[t].firstPayload = None
                   THEN [ hist[t] EXCEPT !.firstPayload = Some(Base64Decode(p)) ]
                   ELSE hist[t] ]
    /\ UNCHANGED << value, now, robot, should_capture_image,
                    current_filename, filenames, files, taken, th, calls >>

\* open(self.current_filename, "wb"): creates or truncates the file;
\* open(None) raises TypeError and the callback ends
OnImageOpen ==
    /\ cb.pc = "open"
    /\ IF current_filename = None
       THEN /\ cb' = IdleCallback
            /\ files' = files
       ELSE /\ cb' = [ cb EXCEPT !.pc = "write", !.file = current_filename ]
            /\ files' = [ files EXCEPT ![current_filename[1]] = Some(<< >>) ]
    /\ UNCHANGED << value, now, robot, should_capture_image,
                    current_filename, filenames, taken, th, calls, hist >>

\* image_file.write(image_bytes), and the close at the end of the with block
OnImageWrite ==
    /\ cb.pc = "write"
    /\ files' = [ files EXCEPT ![cb.file[1]] = Some(cb.bytes) ]
    /\ cb' = [ cb EXCEPT !.pc = "disarm" ]
    /\ UNCHANGED << value, now, robot, should_capture_image,
                    current_filename, filenames, taken, th, calls, hist >>

\* self.should_capture_image = False
OnImageDisarm ==
    /\ cb.pc = "disarm"
    /\ should_capture_image' = FALSE
    /\ cb' = IdleCallback
    /\ UNCHANGED << value, now, robot, current_filename, filenames,
                    files, taken, th, calls, hist >>

\* a register_run_id that registers while the capture is still pending
RegisterWhileArmed == should_capture_image

\* the test of ImageTopic.register_run_id: if not self.should_capture_image
RegisterAllowed == ~ should_capture_image

\* self.filenames[run_id] = self.current_filename
Registered(run_id) ==
    { item \in filenames : item[1] # run_id } \cup { << run_id, current_filename >> }

\* ImageTopic.register_run_id
RegisterRunId(run_id) == IF RegisterAllowed THEN Registered(run_id) ELSE filenames

IsMapped(run_id) == \E item \in filenames : item[1] = run_id
FilenameOf(run_id) == (CHOOSE item \in filenames : item[1] = run_id)[2]

\* ImageTopic.read_image: [ exc, data ]
ReadImage(run_id) ==
    IF ~ IsMapped(run_id) THEN [ exc |-> "KeyError", data |-> None ]
    ELSE IF FilenameOf(run_id) = None THEN [ exc |-> "TypeError", data |-> None ]
    ELSE IF files[FilenameOf(run_id)[1]] = None
         THEN [ exc |-> "FileNotFoundError", data |-> None ]
    ELSE [ exc |-> "none", data |-> files[FilenameOf(run_id)[1]] ]

\* ------------------------------------------------------------ the host calls
\* Robot.get_inspection_references for the task just scheduled, with the run
\* id schedule_task returned: registers the run id and makes the reference
GetInspectionReferences(t, task) ==
    /\ th[t].pc = "ended"
    /\ th[t].outcome \in { "returned", "InspectionTimeout" }
    /\ th[t].task = "Inspection"
    /\ filenames' = RegisterRunId(th[t].run_id)
    /\ th' = [ th EXCEPT ![t].pc = "referenced",
                         ![t].reference = Some([ id |-> th[t].run_id, kind |-> task ]) ]
    /\ hist' = [ hist EXCEPT ![t].regArmed = should_capture_image,
                             ![t].regBefore = filenames ]
    /\ UNCHANGED << value, now, robot, should_capture_image,
                    current_filename, files, taken, cb, calls >>

\* self.logger("Failed to retreive inspection result", e) in the except
\* blocks: a Logger is not callable, the call raises TypeError
LogFailure == [ exc |-> "TypeError", data |-> None ]

\* PIL reads an image of whole RGB pixels, 3 bytes each
IsImage(bytes) == Len(bytes) > 0 /\ Len(bytes) % 3 = 0

\* image_array[:, :, 0], saved again: the first byte of every pixel
RedChannel(bytes) == [ i \in 1..(Len(bytes) \div 3) |-> bytes[3 * i - 2] ]

\* Robot.download_inspection_result for a reference: [ exc, data ], data None
\* when the method returns None
Download(ref) ==
    LET r == ReadImage(ref.id) IN
    IF ref.kind = "TakeImage" THEN
        IF r.exc \in { "KeyError", "TypeError", "FileNotFoundError" } THEN LogFailure
        ELSE r
    ELSE
        IF r.exc # "none" \/ ~ IsImage(r.data[1]) THEN LogFailure
        ELSE [ exc |-> "none", data |-> Some(RedChannel(r.data[1])) ]

DownloadInspectionResult(t) ==
    /\ th[t].pc = "referenced"
    /\ th' = [ th EXCEPT ![t].pc = "downloaded", ![t].result = Download(th[t].reference[1]) ]
    /\ UNCHANGED << value, now, robot, image, calls, hist >>

\* the host is done with the task of thread t.  Only differences of clock
\* readings are ever used, so the clock's epoch is moved to this moment when
\* no other call holds a start_time.
Return(t) ==
    /\ th[t].pc \in { "ended", "referenced", "downloaded" }
    /\ th' = [ th EXCEPT ![t] = IdleThread ]
    /\ hist' = [ hist EXCEPT ![t] = NoHistory ]
    /\ now' = IF \A u \in Threads \ { t } : ~ InCall(u) THEN 0 ELSE now
    /\ UNCHANGED << value, robot, image, calls >>

\* a _task_status that answers from inspection_status whenever any task is
\* current
TaskStatusOfAnyTask ==
    IF current_task # None
    THEN [ exc |-> "none", status |-> inspection_status ]
    ELSE [ exc |-> NavigationStatusOf(value).exc, status |-> NavigationStatusOf(value).val ]

\* Robot._task_status: [ exc, status ]
TaskStatus ==
    IF current_task = Some("inspection")
    THEN [ exc |-> "none", status |-> inspection_status ]
    ELSE [ exc |-> NavigationStatusOf(value).exc, status |-> NavigationStatusOf(value).val ]

\* Robot.mission_status
MissionStatus ==
    /\ status_reply' =
         IF TaskStatus.exc # "none" THEN [ exc |-> TaskStatus.exc, status |-> None ]
         ELSE [ exc |-> "none", status |-> Some(GetMissionStatus(TaskStatus.status)) ]
    /\ UNCHANGED << value, now, robot, image, th, calls, hist >>

\* -------------------------------------------------------------------- steps
\* a step of anyone but mission_status: the reply it gave is consumed
Step == status_reply' = NoReply

\* one host thread
Next ==
    \/ \E m \in Messages : OnMessage(m) /\ Step
    \/ \E p \in Payloads : OnImage(p) /\ Step
    \/ OnImageOpen /\ Step
    \/ OnImageWrite /\ Step
    \/ OnImageDisarm /\ Step
    \/ \E task \in Tasks : ScheduleTask(1, task) /\ Step
    \/ SetActive(1) /\ Step
    \/ ReadPrevious(1) /\ Step
    \/ PublishNavigationTask(1) /\ Step
    \/ WaitStart(1) /\ Step
    \/ \E d \in 1..MaxSleep : WaitSleep(1, d) /\ Step
    \/ InspectionStart(1) /\ Step
    \/ NavigationPoll(1) /\ Step
    \/ \E d \in 1..MaxSleep : NavigationSleep(1, d) /\ Step
    \/ TimeoutCaught(1) /\ Step
    \/ TakeImageArm(1) /\ Step
    \/ TakeImageFile(1) /\ Step
    \/ CapturePoll(1) /\ Step
    \/ \E d \in 1..MaxSleep : CaptureSleep(1, d) /\ Step
    \/ Succeed(1) /\ Step
    \/ ClearTask(1) /\ Step
    \/ \E task \in InspectionTasks : GetInspectionReferences(1, task) /\ Step
    \/ DownloadInspectionResult(1) /\ Step
    \/ Return(1) /\ Step
    \/ MissionStatus

Spec == Init /\ [][Next]_vars

\* a step of the schedule_task call of thread t
CallStep(t) ==
    \/ SetActive(t) /\ Step
    \/ ReadPrevious(t) /\ Step
    \/ PublishNavigationTask(t) /\ Step
    \/ WaitStart(t) /\ Step
    \/ \E d \in 1..MaxSleep : WaitSleep(t, d) /\ Step
    \/ InspectionStart(t) /\ Step
    \/ NavigationPoll(t) /\ Step
    \/ \E d \in 1..MaxSleep : NavigationSleep(t, d) /\ Step
    \/ TimeoutCaught(t) /\ Step
    \/ TakeImageArm(t) /\ Step
    \/ TakeImageFile(t) /\ Step
    \/ CapturePoll(t) /\ Step
    \/ \E d \in 1..MaxSleep : CaptureSleep(t, d) /\ Step
    \/ Succeed(t) /\ Step
    \/ ClearTask(t) /\ Step

\* the host thread inside schedule_task keeps running, and every sleep
\* returns with the clock advanced; the transport and the host's other calls
\* are under no obligation (the topics may stay silent for ever)
\* the messages that may arrive while a call waits: the earlier goal,
\* succeeded, and the new goal, active; and one payload
LiveMessages == OkMessages({ RawA5 }, { 3 }) \cup OkMessages({ RawB2 }, { 1 })
LivePayloads == { << "A", "Q", "I", "D" >> }

NextLive ==
    \/ \E m \in LiveMessages : OnMessage(m) /\ Step
    \/ \E p \in LivePayloads : OnImage(p) /\ Step
    \/ OnImageOpen /\ Step
    \/ OnImageWrite /\ Step
    \/ OnImageDisarm /\ Step
    \/ \E task \in Tasks : ScheduleTask(1, task) /\ Step
    \/ CallStep(1)
    \/ Return(1) /\ Step

SpecLive == Init /\ [][NextLive]_vars /\ WF_vars(CallStep(1))

\* one host thread with these messages and this payload, its calls followed
\* by the host's get_inspection_references and download_inspection_result,
\* and mission_status called at any moment
NextCall ==
    \/ NextLive
    \/ \E task \in InspectionTasks : GetInspectionReferences(1, task) /\ Step
    \/ DownloadInspectionResult(1) /\ Step
    \/ MissionStatus

SpecCall == Init /\ [][NextCall]_vars

\* two host threads calling schedule_task on the same Robot, each ConcCalls
\* times, the first with an inspection task and the second with a navigation
\* task; the topics deliver two goals, one active and one succeeded, and one
\* payload
ConcTask(t) == IF t = 1 THEN "TakeImage" ELSE "DriveToPose"
ConcMessages == OkMessages({ RawA5 }, { 1 }) \cup OkMessages({ RawB2 }, { 3 })
ConcPayloads == { << "A", "Q", "I", "D" >> }

NextConc ==
    \/ \E m \in ConcMessages : OnMessage(m) /\ Step
    \/ \E p \in ConcPayloads : OnImage(p) /\ Step
    \/ OnImageOpen /\ Step
    \/ OnImageWrite /\ Step
    \/ OnImageDisarm /\ Step
    \/ \E t \in Threads :
         \/ ScheduleTask(t, ConcTask(t)) /\ calls[t] < ConcCalls /\ Step
         \/ SetActive(t) /\ Step
         \/ ReadPrevious(t) /\ Step
         \/ PublishNavigationTask(t) /\ Step
         \/ WaitStart(t) /\ Step
         \/ WaitSleep(t, 1) /\ Step
         \/ InspectionStart(t) /\ Step
         \/ NavigationPoll(t) /\ Step
         \/ NavigationSleep(t, 1) /\ Step
         \/ TimeoutCaught(t) /\ Step
         \/ TakeImageArm(t) /\ Step
         \/ TakeImageFile(t) /\ Step
         \/ CapturePoll(t) /\ Step
         \/ CaptureSleep(t, 1) /\ Step
         \/ Succeed(t) /\ Step
         \/ ClearTask(t) /\ Step
         \/ Return(t) /\ Step

SpecConc == Init /\ [][NextConc]_vars

\* ------------------------------------------------------- the image channel
\* The image channel alone, its calls made one after the other: take_image
\* and register_run_id are whole calls made while no on_image callback runs.
\* ImageTopic.take_image as one call
TakeImage ==
    /\ cb.pc = "idle"
    /\ taken < Cardinality(Paths)
    /\ should_capture_image' = TRUE
    /\ taken' = taken + 1
    /\ current_filename' = Some(taken + 1)
    /\ UNCHANGED << value, now, robot, filenames, files, cb, th, calls, hist >>

\* the run ids the host registers
RunIds == { Some(NormalizeRunId(raw)) : raw \in RawIds }

\* ImageTopic.register_run_id as one call
RegisterCall(run_id) ==
    /\ cb.pc = "idle"
    /\ filenames' = RegisterRunId(run_id)
    /\ UNCHANGED << value, now, robot, should_capture_image, current_filename,
                    files, taken, cb, th, calls, hist >>

NextImage ==
    \/ TakeImage /\ Step
    \/ \E run_id \in RunIds : RegisterCall(run_id) /\ Step
    \/ \E p \in Payloads : OnImage(p) /\ Step
    \/ OnImageOpen /\ Step
    \/ OnImageWrite /\ Step
    \/ OnImageDisarm /\ Step

SpecImage == Init /\ [][NextImage]_vars

\* ------------------------------------------------------ run id normalization
\* The goal ids of the form "move_base-<hex>.<digits>": <hex> over the
\* characters a, 1 and -, <digits> over 5 and 7.
StringsUpTo(alphabet, n) == UNION { [ 1..k -> alphabet ] : k \in 0..n }
HexParts == StringsUpTo({ "a", "1", "-" }, MaxHexLen)
DigitParts == StringsUpTo({ "5", "7" }, MaxDigitsLen) \ { << >> }
RawIdOf(hex, digits) == MoveBasePrefix \o hex \o << "." >> \o digits

\* the topic holds a message with such a goal id when a navigation task is
\* scheduled; no other message arrives, and the task's dispatch times out
InitNorm ==
    /\ value \in OkMessages({ RawIdOf(h, d) : h \in HexParts, d \in DigitParts }, { 3 })
    /\ now = 0
    /\ current_task = None
    /\ inspection_status = None
    /\ should_capture_image = FALSE
    /\ current_filename = None
    /\ filenames = { }
    /\ files = [ p \in Paths |-> None ]
    /\ taken = 0
    /\ cb = IdleCallback
    /\ th = [ t \in Threads |-> IdleThread ]
    /\ calls = [ t \in Threads |-> 0 ]
    /\ status_reply = NoReply
    /\ hist = [ t \in Threads |-> NoHistory ]

NextNorm ==
    \/ ScheduleTask(1, "DriveToPose") /\ Step
    \/ ReadPrevious(1) /\ Step
    \/ PublishNavigationTask(1) /\ Step
    \/ WaitStart(1) /\ Step
    \/ \E d \in 1..MaxSleep : WaitSleep(1, d) /\ Step
    \/ Return(1) /\ Step

SpecNorm == InitNorm /\ [][NextNorm]_vars

\* ------------------------------------------------------------------ claims
\* how the _wait_for_updated_task of thread t's call ended
DispatchReturned(t) ==
    \/ th[t].pc = "inspStart"
    \/ th[t].pc = "ended" /\ th[t].task = "DriveToPose" /\ th[t].outcome = "returned"
DispatchTimedOut(t) == th[t].pc = "ended" /\ th[t].outcome = "DispatchTimeout"
InspectionTimedOut(t) == th[t].pc = "ended" /\ th[t].outcome = "InspectionTimeout"

\* C1: a schedule_task call for a supported task (DriveToPose, TakeImage,
\* TakeThermalImage) never fails because of a timeout: no such call ends by
\* raising the TimeoutError of the dispatch step or of an inspection phase.
C1_TimeoutNeverFailsSubmit ==
    \A t \in Threads :
        th[t].pc = "ended" /\ th[t].task # "Other"
            => th[t].outcome # "DispatchTimeout"

\* C2: after an inspection task has timed out (navigation or capture phase),
\* the next mission_status call reports Failure, whatever the navigation
\* status topic holds.
C2_FailureAfterInspectionTimeout ==
    \A t \in Threads :
        InspectionTimedOut(t) /\ status_reply # NoReply
            => status_reply = [ exc |-> "none", status |-> Some("Failure") ]

\* C3: when a schedule_task call ends with a dispatch timeout or an
\* inspection timeout, current_task is None at the end of the call.
C3_TimeoutClearsCurrentTask ==
    \A t \in Threads :
        DispatchTimedOut(t) \/ InspectionTimedOut(t) => current_task = None

\* the states of _do_inspection_task in which thread t is about to poll, or
\* has just polled with success
InspectionPolling(t) ==
    th[t].pc \in { "navPoll", "takeImage", "takeImageFile", "capPoll", "succeed" }

\* C4: the inspection run has one deadline, TInsp after the start of the
\* navigation-completion wait, for both phases: every poll of the navigation
\* status and of the stored image is made within it, the clock is never
\* started again, and the run fails (inspection_status = Failure, phase
\* navigation or capture) at the first sleep that ends after it.
C4_CumulativeDeadline ==
    \A t \in Threads :
        /\ InspectionPolling(t) \/ th[t].pc \in { "navSleep", "capSleep", "caught" }
             => th[t].start_time = hist[t].navWaitStart
        /\ InspectionPolling(t) \/ th[t].pc \in { "navSleep", "capSleep" }
             => now - hist[t].navWaitStart <= TInsp
        /\ th[t].pc = "caught"
             => /\ now - hist[t].navWaitStart > TInsp
                /\ inspection_status = Some("Failure")
                /\ th[t].phase \in { "navigation", "capture" }

\* C4 witness: a capture-phase timeout of a run whose navigation phase used
\* part of the budget: the capture phase lasted less than TInsp.
C4_Witness ==
    \E t \in Threads :
        /\ th[t].pc = "caught" /\ th[t].phase = "capture"
        /\ hist[t].captureStart > hist[t].navWaitStart
        /\ now - hist[t].captureStart < TInsp

\* C5 as stated: _wait_for_updated_task fails with the dispatch timeout only
\* if the topic's run id never differed from previous_run_id before the
\* deadline (it returns whenever the run id changes before the deadline).
C5_ReturnsWhenChangedBeforeDeadline ==
    \A t \in Threads : DispatchTimedOut(t) => ~ hist[t].changed

\* C5 amended: _wait_for_updated_task returns, within TNav of its start, the
\* run id one of its polls read and found different from previous_run_id; it
\* keeps sleeping only while the last poll read previous_run_id and the
\* deadline has not passed; it fails with the dispatch timeout at the first
\* sleep ending after the deadline, the last poll having read previous_run_id.
C5_ReturnsWhatAPollReadBeforeDeadline ==
    \A t \in Threads :
        /\ th[t].pc = "waitSleep"
             => /\ th[t].current_run_id = th[t].previous_run_id
                /\ now - th[t].start_time <= TNav
        /\ DispatchReturned(t)
             => /\ th[t].run_id = th[t].current_run_id
                /\ th[t].run_id # th[t].previous_run_id
                /\ now - th[t].start_time <= TNav
        /\ DispatchTimedOut(t)
             => /\ th[t].current_run_id = th[t].previous_run_id
                /\ now - th[t].start_time > TNav

\* C5 witness: a dispatch that timed out although the topic's run id had
\* differed from previous_run_id before the deadline.
C5_Witness ==
    \E t \in Threads : DispatchTimedOut(t) /\ hist[t].changed

\* C6: the run id _wait_for_updated_task returns is never None and differs
\* from the run id read before the goal was published.
C6_TokenIsNewRunId ==
    \A t \in Threads :
        DispatchReturned(t)
            => th[t].run_id # None /\ th[t].run_id # th[t].previous_run_id

\* thread t's host has called get_inspection_references
Referenced(t) == th[t].pc \in { "referenced", "downloaded" }

\* C7 as stated: register_run_id records run_id -> current_filename only if
\* the channel is still armed; called after the channel has disarmed it
\* records nothing.
C7_RegistersOnlyWhileArmed ==
    \A t \in Threads :
        Referenced(t)
            => IF hist[t].regArmed
               THEN << th[t].run_id, current_filename >> \in filenames
               ELSE filenames = hist[t].regBefore

\* C7 amended: register_run_id records run_id -> current_filename only if the
\* channel is not armed: called after the image has arrived and the channel
\* has disarmed, it records the association (replacing an earlier one of the
\* same run id), and download_inspection_result of a plain-image reference
\* then returns the bytes of the file at that path when the file exists;
\* called while the channel is armed it records nothing.
C7_RegistersOnlyWhenDisarmed ==
    \A t \in Threads :
        Referenced(t)
            => IF hist[t].regArmed
               THEN filenames = hist[t].regBefore
               ELSE /\ << th[t].run_id, current_filename >> \in filenames
                    /\ \A item \in filenames : item[1] = th[t].run_id => item[2] = current_filename
                    /\ \A item \in filenames : item[1] # th[t].run_id => item \in hist[t].regBefore
                    /\ th[t].pc = "downloaded" /\ th[t].reference[1].kind = "TakeImage"
                          /\ current_filename # None /\ files[current_filename[1]] # None
                         => th[t].result = [ exc |-> "none", data |-> files[current_filename[1]] ]

\* C7 witness: register_run_id was called after a payload had been stored and
\* the channel had disarmed, and the association is recorded.
C7_Witness ==
    \E t \in Threads :
        /\ th[t].pc = "downloaded" /\ ~ hist[t].regArmed
        /\ th[t].outcome = "returned"
        /\ hist[t].regBefore = { }
        /\ th[t].result.exc = "none" /\ th[t].result.data = hist[t].firstPayload

\* C8: download_inspection_result never fails: it returns a result or None.
C8_DownloadNeverFails ==
    \A t \in Threads : th[t].pc = "downloaded" => th[t].result.exc = "none"

\* C9: two schedule_task calls on one Robot are never inside the call at the
\* same time (the second is rejected or waits for the first to end).
C9_OneTaskAtATime ==
    \A t, u \in Threads : InCall(t) /\ InCall(u) => t = u

\* C10: after an inspection run that ended with Succeeded and returned its
\* run id, and the host's get_inspection_references for the task,
\* download_inspection_result returns exactly the decoded bytes of the first
\* payload delivered after the channel was armed in that run.
C10_DownloadReturnsFirstPayload ==
    \A t \in Threads :
        th[t].pc = "downloaded" /\ th[t].outcome = "returned"
            => th[t].result = [ exc |-> "none", data |-> hist[t].firstPayload ]

\* C11: mission_status answers from the locally held inspection_status
\* exactly when current_task is "inspection"; in every other case (current_task
\* "navigation" or None) it answers from entry 0 of the latest message of the
\* navigation-status topic (and raises the lookup's exception when there is
\* no message or the message has no entry 0).
C11_StatusSource ==
    status_reply # NoReply
        => IF current_task = Some("inspection")
           THEN status_reply =
                  [ exc |-> "none", status |-> Some(GetMissionStatus(inspection_status)) ]
           ELSE IF value.kind \in { "ok", "nogoal" }
           THEN status_reply =
                  [ exc |-> "none", status |-> Some(MapToTurtlebotStatus(value.status)) ]
           ELSE status_reply.status = None /\ status_reply.exc # "none"

\* C11 witness: during an inspection run the topic reports Succeeded (the
\* robot has arrived) and mission_status answers Active, from
\* inspection_status.
C11_Witness ==
    /\ current_task = Some("inspection")
    /\ value.kind = "ok" /\ value.status = 3
    /\ status_reply = [ exc |-> "none", status |-> Some("Active") ]

\* the paths that hold a file
Stored == { p \in Paths : files[p] # None }

\* C12, the states: an on_image callback goes past its test only for a
\* payload delivered while the channel was armed, and then writes the decoded
\* payload to the current storage path; the files are at paths take_image
\* allocated, at most one per take_image call, and when the channel is not
\* armed the current path holds the payload of its arm.
C12_States ==
    /\ cb.pc # "idle" => should_capture_image /\ current_filename = Some(taken)
    /\ cb.pc \in { "write", "disarm" } => cb.file = current_filename
    /\ cb.pc = "write" => files[taken] = Some(<< >>)
    /\ cb.pc = "disarm" => files[taken] = Some(cb.bytes)
    /\ Stored \subseteq 1..taken
    /\ Cardinality(Stored) <= taken
    /\ should_capture_image /\ cb.pc \in { "idle", "open" } => taken \notin Stored
    /\ ~ should_capture_image /\ taken > 0 => taken \in Stored
    /\ ~ should_capture_image => current_filename = IF taken = 0 THEN None ELSE Some(taken)

\* C12, the steps: a step that changes the files is a step of a callback
\* that found the channel armed, changes only the file at the current path
\* and leaves the flag, the path and the mapping alone; the channel is
\* disarmed only by the callback that has written its payload; a payload
\* delivered while the channel is not armed changes nothing of the channel;
\* a file once written by a callback that has ended is never changed.
C12_Steps ==
    /\ files' # files
         => /\ should_capture_image /\ cb.pc \in { "open", "write" }
            /\ \A p \in Paths \ { taken } : files'[p] = files[p]
            /\ UNCHANGED << should_capture_image, current_filename, filenames, taken >>
    /\ should_capture_image /\ ~ should_capture_image'
         => /\ cb.pc = "disarm" /\ cb' = IdleCallback
            /\ files' = files /\ files[taken] = Some(cb.bytes)
            /\ UNCHANGED << current_filename, filenames, taken >>
    /\ ~ should_capture_image => cb' = cb /\ files' = files
    /\ \A p \in Paths :
         files[p] # None /\ (p # taken \/ ~ should_capture_image) => files'[p] = files[p]

\* C12: under every sequence of take_image calls and payload deliveries (and
\* register_run_id calls): a payload delivered while the channel is armed is
\* written to the current storage path and disarms the channel, a payload
\* delivered while it is not armed is dropped and changes nothing, and each
\* take_image call stores at most one payload.
C12_ArmedPayloadStoredOnce == [] C12_States /\ [][C12_Steps]_vars

\* C12 witness: three take_image calls, the third made before any payload
\* arrived for the second: the second slot was never written, the first and
\* the third hold different payloads, the channel is disarmed.
C12_Witness ==
    /\ taken = 3 /\ ~ should_capture_image /\ cb.pc = "idle"
    /\ Stored = { 1, 3 }
    /\ files[1] # files[3]

\* C13: _get_run_id returns None without failing whenever the latest
\* navigation-status message is absent or malformed: no schedule_task call
\* ends with the exception of a run-id read.  (In a call _get_run_id is the
\* first reader of the topic, and the topic never goes back to absent, so
\* a TypeError outcome is the TypeError of _get_run_id on an absent message.)
C13_GetRunIdNeverFails ==
    \A t \in Threads : th[t].pc = "ended" => th[t].outcome # "TypeError"

\* thread t has read previous_run_id from the topic
HasReadPrevious(t) == th[t].pc \in { "publish", "waitStart", "waitSleep" }

\* C14: for every raw id "move_base-<hex>.<digits>" the topic holds, the run
\* id _get_run_id returns is exactly <hex> with every "-" removed, whatever
\* <digits> is (so raw ids that differ only after the first "." give the same
\* run id).
C14_NormalizedIsHexWithoutDashes ==
    \A t \in Threads : \A h \in HexParts, d \in DigitParts :
        HasReadPrevious(t) /\ value.id = RawIdOf(h, d)
            => th[t].previous_run_id = Some(SelectSeq(h, IsNotDash))

\* C14 witness: the raw id "move_base-a-1.57" has been read as "a1".
C14_Witness ==
    \E t \in Threads :
        /\ HasReadPrevious(t)
        /\ value.id = RawIdOf(<< "a", "-", "1" >>, << "5", "7" >>)
        /\ th[t].previous_run_id = Some(<< "a", "1" >>)

\* the phases of a successful inspection run, in the order of the code
PhaseOrder ==
    << "dispatched", "navSucceeded", "armed", "slot", "stored", "succeeded", "cleared" >>

\* C15, the states: what an inspection run has done so far is a beginning of:
\* dispatch returned, navigation status read as Succeeded, channel armed, slot
\* allocated, slot seen stored, inspection_status set to Succeeded,
\* current_task cleared; and the slot seen stored is the slot of this run.
C15_States ==
    \A t \in Threads :
        /\ Len(hist[t].events) <= Len(PhaseOrder)
        /\ hist[t].events = SubSeq(PhaseOrder, 1, Len(hist[t].events))
        /\ Len(hist[t].events) >= 5 /\ InCall(t)
             => current_filename = Some(taken) /\ files[taken] # None

\* C15, the steps: the channel is armed only by a run whose dispatch has
\* returned and which has read the navigation status as Succeeded;
\* inspection_status becomes Succeeded, and current_task is cleared with it,
\* only in a run that has seen its slot stored.
C15_Steps ==
    /\ ~ should_capture_image /\ should_capture_image'
         => \E t \in Threads :
               /\ hist[t].events = << "dispatched", "navSucceeded" >>
               /\ hist'[t].events = << "dispatched", "navSucceeded", "armed" >>
    /\ inspection_status # Some("Succeeded") /\ inspection_status' = Some("Succeeded")
         => \E t \in Threads :
               /\ hist[t].events = SubSeq(PhaseOrder, 1, 5)
               /\ hist'[t].events = SubSeq(PhaseOrder, 1, 6)
    /\ current_task # None /\ current_task' = None /\ inspection_status # Some("Failure")
         => \E t \in Threads :
               /\ hist[t].events = SubSeq(PhaseOrder, 1, 6)
               /\ hist'[t].events = PhaseOrder

\* C15: within one inspection run the phases are strictly sequential: the
\* channel is armed only after dispatch has returned and the navigation
\* status has been read as Succeeded in that run, and inspection_status is
\* set to Succeeded (and current_task cleared) only after the slot armed in
\* that run has been seen stored.
C15_PhasesInOrder == [] C15_States /\ [][C15_Steps]_vars

\* C15 witness: a run that went through every phase and ended with
\* inspection_status Succeeded and current_task cleared, its slot holding a
\* payload.
C15_Witness ==
    \E t \in Threads :
        /\ hist[t].events = PhaseOrder
        /\ th[t].pc = "ended" /\ th[t].outcome = "returned"
        /\ inspection_status = Some("Succeeded") /\ current_task = None
        /\ files[taken] = hist[t].firstPayload

\* C16: every schedule_task call eventually ends, returning or raising,
\* whatever the topics deliver or fail to deliver: none of the three wait
\* loops polls for ever.
C16_CallEnds == \A t \in Threads : InCall(t) ~> ~ InCall(t)

\* C16 witness: a call that ended by the capture-phase timeout after its
\* dispatch wait had slept too: it was in all three loops while no payload
\* arrived.
C16_Witness ==
    \E t \in Threads :
        /\ th[t].pc = "caught" /\ th[t].phase = "capture"
        /\ hist[t].navWaitStart > 0
        /\ hist[t].captureStart > hist[t].navWaitStart
        /\ hist[t].firstPayload = None

\* the number of take_image calls that have set should_capture_image: those
\* that have allocated their path, and the one between its two statements
ArmsMade == taken + Cardinality({ t \in Threads : th[t].pc = "takeImageFile" })

\* C17: under every interleaving of on_image with take_image, a callback
\* that found the channel armed opens the path of the latest take_image call:
\* never the path an earlier call allocated, never an absent path (the slot of
\* an arm is allocated before a payload can be consumed for it).
C17_CallbackOpensLatestSlot ==
    [][ cb.pc = "open" /\ cb' # cb
          => cb'.pc = "write" /\ cb'.file = Some(ArmsMade) ]_vars

\* C18: when download_inspection_result returns an image for the reference
\* of an inspection run, the image is a file of that run: the run allocated a
\* slot (it did not time out in the navigation phase) and its run id is
\* mapped to that slot, not to the slot of an earlier run.
C18_DownloadIsOfThisRun ==
    \A t \in Threads :
        th[t].pc = "downloaded" /\ th[t].result.exc = "none" /\ th[t].result.data # None
            => /\ Len(hist[t].events) >= 4
               /\ << th[t].run_id, Some(taken) >> \in filenames

\* the inspection run of thread t has ended, by success or by a timeout of
\* one of its phases
RunEnded(t) ==
    /\ th[t].task = "Inspection"
    /\ th[t].pc \in { "ended", "referenced", "downloaded" }
    /\ th[t].outcome \in { "returned", "InspectionTimeout" }

\* C19: when an inspection run has ended the channel is disarmed: a payload
\* delivered after the end of the run (no callback was running) is dropped by
\* on_image, never taken for writing.
C19_PayloadAfterRunIsDropped ==
    [][ (\E t \in Threads : RunEnded(t)) /\ cb.pc = "idle" => cb'.pc = "idle" ]_vars

\* thread t's schedule_task has set current_task = "inspection" and its
\* inspection run has neither succeeded nor failed yet
InspectionRunning(t) ==
    /\ th[t].task = "Inspection"
    /\ th[t].pc \in { "setActive", "readPrev", "publish", "waitStart", "waitSleep",
                       "inspStart", "navPoll", "navSleep", "takeImage",
                       "takeImageFile", "capPoll", "capSleep", "succeed" }

\* C20: from the moment schedule_task sets current_task = "inspection" until
\* the inspection run ends, a mission_status call made by the host at the
\* same time answers Active: never the Succeeded, Failure or unset
\* inspection_status of an earlier inspection.
C20_ActiveWhileInspectionRuns ==
    \A t \in Threads :
        InspectionRunning(t) /\ status_reply # NoReply
            => status_reply = [ exc |-> "none", status |-> Some("Active") ]
====
